---- MODULE Spec2Model ----
(***************************************************************************)
(* A model of src/code_search_engine.py: the LRUCache, the MetricsTracker  *)
(* and CodeSearchEngine (index_repository, build_search_index, save_index, *)
(* load_index, search).                                                    *)
(*                                                                         *)
(* Texts (queries, cache keys) are sequences of one-character strings.     *)
(* A latency is a whole number of milliseconds.  The text of a file is a   *)
(* sequence of the characters "x" (a character that is not whitespace),    *)
(* " " and "\n"; a line of content.split('\n') is kept as "x" (it holds a  *)
(* character that is not whitespace) or " " (it is empty or holds          *)
(* whitespace only).                                                       *)
(***************************************************************************)
EXTENDS Integers, Sequences, FiniteSets, TLC

VARIABLES
    \* ---- LRUCache (src/code_search_engine.py:24-59)
    cache,                \* the OrderedDict, oldest entry first: Seq([key, value])
    hits,
    misses,
    cache_lock,           \* the thread holding LRUCache.lock, or None
    \* ---- MetricsTracker (src/code_search_engine.py:61-106)
    total_queries,
    total_search_time,
    queries_under_50ms,
    queries_under_200ms,
    query_history,
    metrics_lock,         \* the thread holding MetricsTracker.lock, or None
    now,                  \* the clock datetime.now() reads, counted from the process start
    \* ---- CodeSearchEngine (src/code_search_engine.py:108-316)
    code_snippets,
    faiss_index,          \* None, or the rows added to the IndexFlatL2
    total_files_indexed,
    total_lines_indexed,
    total_repositories,
    disk,                 \* index_dir: [index |-> code.index, meta |-> metadata.json]
    unreadable,           \* the files of index_dir that are there and cannot be deserialized
    tree,                 \* the directories index_repository is called with
    main_pc,              \* where main() is, and the paths it has still to index
    \* ---- the threads that serve search requests
    pc,
    frame,                \* each thread's local variables of search / record_query
    \* ---- history variables, read by the properties only
    cache_op,             \* the last LRUCache call: what it was and the state it found
    last_use,             \* per key, the tick of its latest successful get or put
    tick,                 \* the number of LRUCache calls made
    gets,                 \* the number of LRUCache.get calls completed
    touched,              \* the last get hit, while only puts of new keys follow it
    recorded,             \* every record passed to record_query, in order
    calls,                \* every search call that returned, in order
    life                  \* what the last completed save_index wrote, and how the
                          \* load_index ended that no other call has followed

cacheVars   == <<cache, hits, misses, cache_lock>>
metricsVars == <<total_queries, total_search_time, queries_under_50ms,
                 queries_under_200ms, query_history, metrics_lock, now>>
engineVars  == <<code_snippets, faiss_index, total_files_indexed,
                 total_lines_indexed, total_repositories, disk, unreadable, tree,
                 main_pc>>
threadVars  == <<pc, frame>>
cacheHist   == <<cache_op, last_use, tick, gets, touched>>
vars == <<cacheVars, metricsVars, engineVars, threadVars, cacheHist, recorded, calls, life>>

\* Python's None, and a value that is not None.
None == <<>>
Some(x) == <<x>>

-----------------------------------------------------------------------------
(* Bounds of the model.                                                    *)

\* LRUCache.capacity; the engine constructs LRUCache(capacity=1000).
capacity == 2
\* The length query_history is trimmed to (1000 in the source).
HistoryLimit == 3
\* LRUCache calls made in SpecCache.
MaxCacheOps == 5
\* record_query calls made in SpecMetrics.
MaxRecords == 4
\* search calls made on one engine.
MaxSearches == 3
\* The lines of the longest file indexed in SpecChunk.
MaxFileLines == 120

-----------------------------------------------------------------------------
(* Helpers.                                                                *)

Min(a, b) == IF a < b THEN a ELSE b

RECURSIVE SumSeq(_)
SumSeq(s) == IF s = <<>> THEN 0 ELSE Head(s) + SumSeq(Tail(s))

\* The elements of s at the positions in keep, in order.
SelectIdx(s, keep) ==
    LET F[i \in 0..Len(s)] ==
            IF i = 0 THEN <<>>
            ELSE IF i \in keep THEN Append(F[i - 1], s[i]) ELSE F[i - 1]
    IN  F[Len(s)]

Digit(d) == CASE d = 0 -> "0" [] d = 1 -> "1" [] d = 2 -> "2" [] d = 3 -> "3"
              [] d = 4 -> "4" [] d = 5 -> "5" [] d = 6 -> "6" [] d = 7 -> "7"
              [] d = 8 -> "8" [] d = 9 -> "9"

\* str(n) of an int, as f"{top_k}" formats it.
RECURSIVE NatToStr(_)
NatToStr(n) == IF n < 10 THEN <<Digit(n)>> ELSE NatToStr(n \div 10) \o <<Digit(n % 10)>>
IntToStr(n) == IF n < 0 THEN <<"-">> \o NatToStr(-n) ELSE NatToStr(n)

-----------------------------------------------------------------------------
(* LRUCache.                                                               *)

\* Fault: the lock is still held after the `with self.lock` block.
lock_released_Kept(lock) == lock
\* The lock after the `with self.lock` block is left.
lock_released(lock) == None

\* `with self.lock` can be passed by thread t: the lock is free, or t took it
\* in an earlier step of the same call.
lock_open(lock, t) == lock = None \/ lock = Some(t)

Keys(c) == {c[i].key : i \in DOMAIN c}
Position(c, key) == CHOOSE i \in DOMAIN c : c[i].key = key
Lookup(c, key) == c[Position(c, key)].value

\* OrderedDict.move_to_end(key): the entry becomes the last one.
move_to_end(c, key) ==
    LET p == Position(c, key)
    IN  SelectIdx(c, DOMAIN c \ {p}) \o <<c[p]>>

\* OrderedDict.__setitem__: a present key keeps its place, a new key goes last.
setitem(c, key, value) ==
    IF key \in Keys(c)
    THEN [c EXCEPT ![Position(c, key)].value = value]
    ELSE Append(c, [key |-> key, value |-> value])

\* OrderedDict.popitem(last=False): the first entry is removed.
popitem_first(c) == Tail(c)

\* Fault: get that leaves the order as it is (no move_to_end).
get_cache_NoMove(c, key) == c
\* The OrderedDict that get leaves.
get_cache(c, key) == IF key \in Keys(c) THEN move_to_end(c, key) ELSE c

\* What get returns.
get_result(c, key) == IF key \in Keys(c) THEN Some(Lookup(c, key)) ELSE None

\* Fault: put that never pops an item.
put_cache_NoEvict(c, key, value) ==
    setitem(IF key \in Keys(c) THEN move_to_end(c, key) ELSE c, key, value)
\* Fault: put that pops the last item (popitem(last=True)).
put_cache_EvictNewest(c, key, value) ==
    LET moved  == IF key \in Keys(c) THEN move_to_end(c, key) ELSE c
        stored == setitem(moved, key, value)
    IN  IF Len(stored) > capacity THEN SubSeq(stored, 1, Len(stored) - 1) ELSE stored
\* The OrderedDict that put leaves.
put_cache(c, key, value) ==
    LET moved  == IF key \in Keys(c) THEN move_to_end(c, key) ELSE c
        stored == setitem(moved, key, value)
    IN  IF Len(stored) > capacity THEN popitem_first(stored) ELSE stored

\* The history variables after a get / a put of key.
HistGet(key) ==
    /\ tick' = tick + 1
    /\ gets' = gets + 1
    /\ cache_op' = Some([op |-> "get", key |-> key, before |-> cache])
    /\ last_use' = IF key \in Keys(cache) THEN (key :> tick + 1) @@ last_use
                   ELSE last_use
    /\ touched' = IF key \in Keys(cache)
                  THEN Some([key |-> key, others |-> Keys(cache) \ {key}, new |-> {}])
                  ELSE None
HistPut(key) ==
    /\ tick' = tick + 1
    /\ gets' = gets
    /\ cache_op' = Some([op |-> "put", key |-> key, before |-> cache])
    /\ last_use' = (key :> tick + 1) @@ last_use
    /\ touched' = IF /\ touched # None
                     /\ key \notin Keys(cache)
                     /\ key \notin ({touched[1].key} \cup touched[1].others
                                        \cup touched[1].new)
                  THEN [touched EXCEPT ![1].new = @ \cup {key}]
                  ELSE None

LRUCache_get(key) ==
    /\ hits' = IF key \in Keys(cache) THEN hits + 1 ELSE hits
    /\ misses' = IF key \in Keys(cache) THEN misses ELSE misses + 1
    /\ cache' = get_cache(cache, key)
    /\ cache_lock' = lock_released(cache_lock)
    /\ HistGet(key)

\* Fault: put that counts a miss when it stores a new key.
LRUCache_put_CountsMiss(key, value) ==
    /\ cache' = put_cache(cache, key, value)
    /\ hits' = hits
    /\ misses' = IF key \in Keys(cache) THEN misses ELSE misses + 1
    /\ cache_lock' = lock_released(cache_lock)
    /\ HistPut(key)

LRUCache_put(key, value) ==
    /\ cache' = put_cache(cache, key, value)
    /\ UNCHANGED <<hits, misses>>
    /\ cache_lock' = lock_released(cache_lock)
    /\ HistPut(key)

-----------------------------------------------------------------------------
(* MetricsTracker.                                                         *)

Under50 == 50
Under200 == 200

\* The latencies a search may measure, in milliseconds.
Latencies == {49, 50, 199, 200}

\* The fields of the tracker, as one record.
Metrics ==
    [total_queries       |-> total_queries,
     total_search_time   |-> total_search_time,
     queries_under_50ms  |-> queries_under_50ms,
     queries_under_200ms |-> queries_under_200ms,
     query_history       |-> query_history]

\* Fault: the trim drops the newest record (pop() for pop(0)).
trim_history_DropNewest(h) == IF Len(h) > HistoryLimit THEN SubSeq(h, 1, Len(h) - 1) ELSE h
\* The history after the append and the trim of record_query.
trim_history(h) == IF Len(h) > HistoryLimit THEN Tail(h) ELSE h

\* Fault: the 50 ms bucket tested with <=.
bucket_50_Inclusive(n, search_time_ms) == IF search_time_ms <= Under50 THEN n + 1 ELSE n
\* The 50 ms bucket after a query of search_time_ms.
bucket_50(n, search_time_ms) == IF search_time_ms < Under50 THEN n + 1 ELSE n

bucket_200(n, search_time_ms) == IF search_time_ms < Under200 THEN n + 1 ELSE n

\* The body of record_query, run on the fields m it read.
record_query_fields(m, query, search_time_ms, from_cache, timestamp) ==
    [total_queries       |-> m.total_queries + 1,
     total_search_time   |-> m.total_search_time + search_time_ms,
     queries_under_50ms  |-> bucket_50(m.queries_under_50ms, search_time_ms),
     queries_under_200ms |-> bucket_200(m.queries_under_200ms, search_time_ms),
     query_history       |->
         trim_history(Append(m.query_history,
                             [query     |-> query,
                              time_ms   |-> search_time_ms,
                              cached    |-> from_cache,
                              timestamp |-> timestamp]))]

\* The tracker's fields become those of the record m.
StoreMetrics(m) ==
    /\ total_queries' = m.total_queries
    /\ total_search_time' = m.total_search_time
    /\ queries_under_50ms' = m.queries_under_50ms
    /\ queries_under_200ms' = m.queries_under_200ms
    /\ query_history' = m.query_history

\* Fault: record_query entered without waiting for the lock.
lock_free_Ignored(lock) == TRUE
\* `with self.lock`: the lock can be taken.
lock_free(lock) == lock = None

\* record_query as one step: `with self.lock` makes it one when called by one thread.
MetricsTracker_record_query(query, search_time_ms, from_cache) ==
    /\ lock_free(metrics_lock)
    /\ StoreMetrics(record_query_fields(Metrics, query, search_time_ms, from_cache, now))
    /\ now' = now + 1
    /\ recorded' = Append(recorded, [query |-> query, time_ms |-> search_time_ms,
                                     cached |-> from_cache, timestamp |-> now])
    /\ UNCHANGED metrics_lock

\* Fault: the average cut to two decimals instead of rounded.
Round2_Truncate(num, den) == (100 * num) \div den
\* round(num / den, 2) in hundredths, for num >= 0 and den > 0: the nearest
\* hundredth, a tie going to the even one.
Round2(num, den) ==
    LET q == (100 * num) \div den
        r == (100 * num) % den
    IN  IF 2 * r > den \/ (2 * r = den /\ q % 2 = 1) THEN q + 1 ELSE q

\* get_stats; the three rounded values are in hundredths.
MetricsTracker_get_stats ==
    [total_queries          |-> total_queries,
     average_search_time_ms |-> IF total_queries > 0
                                THEN Round2(total_search_time, total_queries) ELSE 0,
     queries_under_50ms     |-> queries_under_50ms,
     queries_under_200ms    |-> queries_under_200ms,
     sub_50ms_rate          |-> IF total_queries > 0
                                THEN Round2(queries_under_50ms * 100, total_queries) ELSE 0,
     sub_200ms_rate         |-> IF total_queries > 0
                                THEN Round2(queries_under_200ms * 100, total_queries) ELSE 0,
     recent_queries         |-> SubSeq(query_history,
                                       IF Len(query_history) > 10
                                       THEN Len(query_history) - 9 ELSE 1,
                                       Len(query_history))]

\* Fault: get_stats reads the fields without taking the lock.
stats_lock_free_Ignored(lock) == TRUE
\* `with self.lock` of MetricsTracker.get_stats: the lock can be taken.
stats_lock_free(lock) == lock_free(lock)

\* LRUCache.get_stats, its first two statements: total = self.hits + self.misses
\* and the hit rate (a percentage, in hundredths).
LRUCache_get_stats_total == hits + misses
LRUCache_get_stats_hit_rate(total) == IF total > 0 THEN Round2(hits * 100, total) ELSE 0
\* LRUCache.get_stats, the dict it returns: hits, misses and the size are read
\* again; no lock is held.
LRUCache_get_stats_result(total, hit_rate) ==
    [hits          |-> hits,
     misses        |-> misses,
     total_queries |-> total,
     hit_rate      |-> hit_rate,
     cache_size    |-> Len(cache)]

-----------------------------------------------------------------------------
(* CodeSearchEngine: indexing and persistence.                             *)

chunk_size == 50

supported_extensions ==
    {".py", ".java", ".cpp", ".c", ".js", ".jsx", ".ts", ".tsx",
     ".go", ".rs", ".rb", ".php", ".cs", ".swift", ".kt", ".scala",
     ".html", ".css", ".sql", ".sh", ".yaml", ".json", ".h", ".hpp"}

skip_directories == {"node_modules", ".git", "__pycache__", "venv", "dist", "build", ".venv"}

Last(s) == s[Len(s)]
Range(s) == {s[i] : i \in DOMAIN s}

\* The text of a file written line by line, each line one character: the lines
\* joined by "\n", and a "\n" after the last line when the file ends in one.
FileText(lines, terminated) ==
    LET n   == Len(lines)
        len == IF n = 0 THEN 0 ELSE 2 * n - 1 + (IF terminated THEN 1 ELSE 0)
    IN  [i \in 1..len |-> IF i % 2 = 1 THEN lines[(i + 1) \div 2] ELSE "\n"]

\* content.split('\n'): one more line than the text has "\n".  The lines of
\* a text of two halves are those of the first half and those of the second,
\* where the last line of the first and the first line of the second are one.
RECURSIVE split_lines(_)
split_lines(text) ==
    IF Len(text) = 0 THEN <<" ">>
    ELSE IF Len(text) = 1
    THEN IF text[1] = "\n" THEN <<" ", " ">> ELSE <<text[1]>>
    ELSE LET half   == Len(text) \div 2
             first  == split_lines(SubSeq(text, 1, half))
             second == split_lines(SubSeq(text, half + 1, Len(text)))
             joined == IF Last(first) = "x" \/ Head(second) = "x" THEN "x" ELSE " "
         IN  SubSeq(first, 1, Len(first) - 1) \o <<joined>> \o Tail(second)

\* A file under a repository: its path below repo_path (its parts), its suffix,
\* whether open() succeeds, the text f.read() returns and content.split('\n').
SourceFile(rel, suffix, readable, text) ==
    [rel |-> rel, suffix |-> suffix, readable |-> readable, text |-> text,
     lines |-> split_lines(text)]

\* The directories index_repository is called with: repo_path (its parts),
\* whether it exists, and its files in the order rglob('*') yields them.
RepoA ==
    [path   |-> <<"repos", "a">>,
     exists |-> TRUE,
     files  |-> <<SourceFile(<<"f.py">>, ".py", TRUE,
                             FileText([i \in 1..60 |-> "x"], FALSE))>>]
RepoB ==
    [path   |-> <<"repos", "b">>,
     exists |-> TRUE,
     files  |-> <<SourceFile(<<"g.js">>, ".js", TRUE, <<"x", "\n", " ">>),
                  SourceFile(<<"node_modules", "m.js">>, ".js", TRUE, <<"x">>),
                  SourceFile(<<"notes.txt">>, ".txt", TRUE, <<"x">>),
                  SourceFile(<<"locked.py">>, ".py", FALSE, <<"x">>),
                  SourceFile(<<"blank.py">>, ".py", TRUE, <<" ", "\n", " ">>)>>]
RepoMissing == [path |-> <<"repos", "nope">>, exists |-> FALSE, files |-> <<>>]
Repos == {RepoA, RepoB, RepoMissing}

\* file_path.is_file() and suffix in supported_extensions, and no part of
\* file_path is a directory to skip.
is_selected(repo, f) ==
    /\ f.suffix \in supported_extensions
    /\ ~ \E skip \in skip_directories : skip \in Range(repo.path \o f.rel)

\* Fault: a chunk is appended whatever it holds.
strip_nonempty_Always(chunk_lines) == TRUE
\* chunk_content.strip() is not empty.
strip_nonempty(chunk_lines) == \E i \in DOMAIN chunk_lines : chunk_lines[i] = "x"

\* The snippets index_repository appends for one file: the loop over
\* range(0, len(lines), chunk_size), whose j-th value is i = (j - 1) * chunk_size.
file_snippets(repo, f) ==
    LET lines  == f.lines
        count  == (Len(lines) + chunk_size - 1) \div chunk_size
        chunk(i) == SubSeq(lines, i + 1, Min(i + chunk_size, Len(lines)))
        S[j \in 0..count] ==
            IF j = 0 THEN <<>>
            ELSE LET i == (j - 1) * chunk_size
                 IN  IF strip_nonempty(chunk(i))
                     THEN Append(S[j - 1],
                                 [file       |-> <<Last(repo.path)>> \o f.rel,
                                  repo       |-> Last(repo.path),
                                  content    |-> chunk(i),
                                  line_start |-> i + 1,
                                  line_end   |-> i + Len(chunk(i))])
                     ELSE S[j - 1]
    IN  S[count]

\* The loop of index_repository over the files: the snippets appended, and
\* files_in_repo and lines_in_repo.
RECURSIVE walk(_, _)
walk(repo, files) ==
    IF files = <<>> THEN [snippets |-> <<>>, files |-> 0, lines |-> 0]
    ELSE LET f    == Head(files)
             rest == walk(repo, Tail(files))
         IN  IF is_selected(repo, f) /\ f.readable
             THEN [snippets |-> file_snippets(repo, f) \o rest.snippets,
                   files    |-> 1 + rest.files,
                   lines    |-> Len(f.lines) + rest.lines]
             ELSE rest

\* model.encode of a text: the embedding model is outside the program; here a
\* text's vector is its length.
encode(text) == Len(text)

\* IndexFlatL2's distance of two vectors: the squared L2 distance.
l2_distance(u, v) == (u - v) * (u - v)

\* The distance the index reports beside a -1 label.
filler_distance == 1000 * 1000

\* build_search_index's index: one row per snippet, embedded from its content.
built_index(snippets) == Some([rows |-> [i \in DOMAIN snippets |-> encode(snippets[i].content)]])

\* Fault: the two totals change places in metadata.json.
metadata_TotalsSwapped ==
    Some([code_snippets      |-> code_snippets,
          total_files        |-> total_lines_indexed,
          total_lines        |-> total_files_indexed,
          total_repositories |-> total_repositories])
\* What save_index writes to metadata.json.
metadata ==
    Some([code_snippets      |-> code_snippets,
          total_files        |-> total_files_indexed,
          total_lines        |-> total_lines_indexed,
          total_repositories |-> total_repositories])

\* The fields of the engine that save_index writes out, as one record.
EngineState ==
    [faiss_index         |-> faiss_index,
     code_snippets       |-> code_snippets,
     total_files_indexed |-> total_files_indexed,
     total_lines_indexed |-> total_lines_indexed,
     total_repositories  |-> total_repositories]

\* The engine is as CodeSearchEngine.__init__ leaves it.
IsFresh ==
    /\ code_snippets = <<>>
    /\ faiss_index = None
    /\ total_files_indexed = 0
    /\ total_lines_indexed = 0
    /\ total_repositories = 0

\* The files of index_dir.
Artifacts == {"index", "meta"}

\* Fault: load_index gives up only when both files are missing.
artifacts_missing_Both(d) == d.index = None /\ d.meta = None
\* not index_file.exists() or not metadata_file.exists().
artifacts_missing(d) == d.index = None \/ d.meta = None

\* faiss.read_index(str(index_file)) raises.
read_index_raises(d, bad) == d.index = None \/ "index" \in bad
\* open(metadata_file) or json.load(f) raises.
json_load_raises(d, bad) == d.meta = None \/ "meta" \in bad

\* How load_index ends: it returns False, it returns True, or an exception
\* leaves it.
load_index_outcome(d, bad) ==
    IF artifacts_missing(d) THEN "False"
    ELSE IF read_index_raises(d, bad) \/ json_load_raises(d, bad) THEN "raised"
    ELSE "True"

\* No save_index has completed and load_index has not been called.
NoLife == [saved |-> None, load |-> "none", fresh |-> FALSE]
\* Another call on the engine or a write to index_dir follows the last load_index.
ClearLoad(l) == [l EXCEPT !.load = "none", !.fresh = FALSE]

-----------------------------------------------------------------------------
(* main(): the calls it makes on the engine before the menu.               *)

\* main() is not running: the methods are called directly.
MainOff == [at |-> "off", todo |-> <<>>]
\* main() is entered.
MainStart == [at |-> "load", todo |-> <<>>]
MainAt(at) == [at |-> at, todo |-> <<>>]

\* Where main() goes when the call it makes at m.at has ended with result:
\* load_index (True, False or raised), index_repository of choice 1 (snippets
\* or none), index_repository in the loop of choice 2, build_search_index.
main_after(m, result) ==
    CASE m.at = "load" ->
             MainAt(IF result = "True" THEN "menu"
                    ELSE IF result = "False" THEN "choice" ELSE "raised")
      [] m.at = "index_1" -> MainAt(IF result = "snippets" THEN "build" ELSE "done")
      [] m.at = "index_2" -> IF Len(m.todo) > 1 THEN [m EXCEPT !.todo = Tail(@)]
                             ELSE MainAt("build")
      [] m.at = "build" -> MainAt("menu")
      [] OTHER -> m

-----------------------------------------------------------------------------
(* CodeSearchEngine.search.                                                *)

\* Fault: the key is taken of the query alone.
cache_key_QueryOnly(query, top_k) == query
\* hashlib.md5(f"{query}:{top_k}".encode()).hexdigest(): the digest stands for
\* the text it is taken of.
cache_key(query, top_k) == query \o <<":">> \o IntToStr(top_k)

\* faiss_index.search(query_embedding, top_k): the labels (0-based rows) of the
\* top_k rows nearest to the query, nearest first, and their distances; when
\* the index holds fewer rows the rest is -1 with the filler distance.
index_search(index, query_vector, top_k) ==
    LET rows == index.rows
        dist(i) == l2_distance(query_vector, rows[i])
        nearer(i, j) == dist(i) < dist(j) \/ (dist(i) = dist(j) /\ i < j)
        rank(i) == 1 + Cardinality({j \in DOMAIN rows : nearer(j, i)})
        row_at(r) == CHOOSE i \in DOMAIN rows : rank(i) = r
    IN  [indices   |-> [r \in 1..top_k |-> IF r <= Len(rows) THEN row_at(r) - 1 ELSE -1],
         distances |-> [r \in 1..top_k |-> IF r <= Len(rows) THEN dist(row_at(r))
                                           ELSE filler_distance]]

\* Fault: the score is 1 / distance.
similarity_score_Unshifted(distance) == [num |-> 1, den |-> distance]
\* float(1 / (1 + distance)), as the fraction num/den.
similarity_score(distance) == [num |-> 1, den |-> 1 + distance]

\* The test that guards code_snippets[idx].
in_store(idx, snippets) == idx < Len(snippets)

\* code_snippets[idx] of a Python list: a negative idx counts from the end.
list_item(snippets, idx) == IF idx >= 0 THEN snippets[idx + 1] ELSE snippets[Len(snippets) + idx + 1]
\* code_snippets[idx] raises IndexError.
list_item_raises(snippets, idx) == idx >= Len(snippets) \/ idx < -Len(snippets)

format_result(snippet, distance) ==
    [file             |-> snippet.file,
     repo             |-> snippet.repo,
     content          |-> snippet.content,
     line_start       |-> snippet.line_start,
     line_end         |-> snippet.line_end,
     similarity_score |-> similarity_score(distance)]

\* The loop that prepares the results from the labels and distances.
prepare_results(snippets, indices, distances) ==
    LET R[n \in 0..Len(indices)] ==
            IF n = 0 THEN <<>>
            ELSE IF in_store(indices[n], snippets)
                 THEN Append(R[n - 1], format_result(list_item(snippets, indices[n]),
                                                     distances[n]))
                 ELSE R[n - 1]
    IN  R[Len(indices)]
prepare_raises(snippets, indices) ==
    \E n \in DOMAIN indices :
        in_store(indices[n], snippets) /\ list_item_raises(snippets, indices[n])

\* Fault: a cache hit reports the time of the cache read, not the stored one.
cached_search_time_Remeasured(entry) == 0
\* The latency search reports on a cache hit.
cached_search_time(entry) == entry.search_time

\* Fault: search goes on without an index.
index_ready_Always(index) == TRUE
\* `if self.faiss_index is None` is false.
index_ready(index) == index # None

\* Fault: a failure of the model or of the index is swallowed and search goes
\* on to store its (empty) results.
pc_after_failure_Masked(error) == "put"
\* Where search goes when encode or faiss_index.search raises: nothing in
\* search catches it.
pc_after_failure(error) == "raised"

\* Fault: a cache hit returns without record_query.
pc_after_get_SkipRecord(hit) == IF hit THEN "return" ELSE "compute"
\* Where search goes after cache.get.
pc_after_get(hit) == IF hit THEN "record" ELSE "compute"

NoMetrics ==
    [total_queries |-> 0, total_search_time |-> 0, queries_under_50ms |-> 0,
     queries_under_200ms |-> 0, query_history |-> <<>>]

\* The results of LRUCache.get_stats and MetricsTracker.get_stats before any call.
NoCacheStats ==
    [hits |-> 0, misses |-> 0, total_queries |-> 0, hit_rate |-> 0, cache_size |-> 0]
NoMetricsStats ==
    [total_queries |-> 0, average_search_time_ms |-> 0, queries_under_50ms |-> 0,
     queries_under_200ms |-> 0, sub_50ms_rate |-> 0, sub_200ms_rate |-> 0,
     recent_queries |-> <<>>]

\* The local variables of a thread that is not inside search or stats_api:
\* those of search and record_query, the exception that leaves search ("" when
\* none) with the calls search has made to the model and to the index, and
\* those of LRUCache.get_stats and stats_api.
IdleFrame ==
    [query |-> <<>>, top_k |-> 0, cache_key |-> <<>>, results |-> <<>>,
     search_time |-> 0, from_cache |-> FALSE, indices |-> <<>>, distances |-> <<>>,
     read |-> NoMetrics,
     error |-> "", encode_calls |-> 0, index_calls |-> 0,
     total |-> 0, hit_rate |-> 0, cache_stats |-> NoCacheStats,
     metrics_stats |-> NoMetricsStats]

\* The record of a returned search call.
Returned(f, ready) ==
    [query |-> f.query, top_k |-> f.top_k, ready |-> ready, results |-> f.results,
     search_time |-> f.search_time, from_cache |-> f.from_cache,
     indices |-> f.indices, distances |-> f.distances]

-----------------------------------------------------------------------------
(* The state after construction (LRUCache.__init__, MetricsTracker.__init__ *)
(* and CodeSearchEngine.__init__ over an empty index directory).           *)

Threads == {1, 2}
\* The thread that runs main().
MainThread == 1

InitCache == cache = <<>> /\ hits = 0 /\ misses = 0 /\ cache_lock = None

InitMetrics ==
    /\ total_queries = 0
    /\ total_search_time = 0
    /\ queries_under_50ms = 0
    /\ queries_under_200ms = 0
    /\ query_history = <<>>
    /\ metrics_lock = None
    /\ now = 1

InitEngineAt(dirs, m) ==
    /\ tree = dirs
    /\ main_pc = m
    /\ code_snippets = <<>>
    /\ faiss_index = None
    /\ total_files_indexed = 0
    /\ total_lines_indexed = 0
    /\ total_repositories = 0
    /\ disk = [index |-> None, meta |-> None]
    /\ unreadable = {}
    /\ life = NoLife

InitEngineOn(dirs) == InitEngineAt(dirs, MainOff)

InitEngine == InitEngineOn(Repos)

InitThreads ==
    /\ pc = [t \in Threads |-> "idle"]
    /\ frame = [t \in Threads |-> IdleFrame]

InitHistory ==
    /\ cache_op = None
    /\ last_use = <<>>
    /\ tick = 0
    /\ gets = 0
    /\ touched = None
    /\ recorded = <<>>
    /\ calls = <<>>

Init == InitCache /\ InitMetrics /\ InitEngine /\ InitThreads /\ InitHistory

-----------------------------------------------------------------------------
(* SpecCache: one LRUCache, called with any sequence of get and put.       *)

\* The keys and the values the cache is called with.
CacheKeys == {<<"k">> \o IntToStr(i) : i \in 1..(capacity + 2)}
CacheValues == {"v1", "v2"}

CacheGet(key) ==
    /\ tick < MaxCacheOps
    /\ LRUCache_get(key)
    /\ UNCHANGED <<metricsVars, engineVars, threadVars, recorded, calls, life>>

CachePut(key, value) ==
    /\ tick < MaxCacheOps
    /\ LRUCache_put(key, value)
    /\ UNCHANGED <<metricsVars, engineVars, threadVars, recorded, calls, life>>

NextCache ==
    \/ \E key \in CacheKeys : CacheGet(key)
    \/ \E key \in CacheKeys, value \in CacheValues : CachePut(key, value)

SpecCache == Init /\ [][NextCache]_vars

-----------------------------------------------------------------------------
(* SpecMetrics: one MetricsTracker, record_query called by one thread.     *)

MetricQueries == {<<"a">>}

RecordQuery(query, search_time_ms, from_cache) ==
    /\ Len(recorded) < MaxRecords
    /\ MetricsTracker_record_query(query, search_time_ms, from_cache)
    /\ UNCHANGED <<cacheVars, engineVars, threadVars, cacheHist, calls, life>>

NextMetrics ==
    \E query \in MetricQueries, t \in Latencies, from_cache \in BOOLEAN :
        RecordQuery(query, t, from_cache)

SpecMetrics == Init /\ [][NextMetrics]_vars

-----------------------------------------------------------------------------
(* The engine's operations.                                                *)

Idle == \A t \in Threads : pc[t] = "idle"

\* index_repository calls made on one engine: one per directory that exists.
MaxIndexCalls == Cardinality({repo \in Repos : repo.exists})

\* Fault: index_repository goes on whether or not the path exists.
path_exists_Always(repo) == TRUE
\* repo_path.exists().
path_exists(repo) == repo.exists

\* index_repository(repo_path).
IndexRepository(repo) ==
    /\ Idle
    /\ total_repositories < MaxIndexCalls
    /\ IF ~path_exists(repo)
       THEN UNCHANGED <<code_snippets, total_repositories, total_files_indexed,
                        total_lines_indexed>>
       ELSE LET w == walk(repo, repo.files)
            IN  /\ total_repositories' = total_repositories + 1
                /\ code_snippets' = code_snippets \o w.snippets
                /\ total_files_indexed' = total_files_indexed + w.files
                /\ total_lines_indexed' = total_lines_indexed + w.lines
    /\ life' = ClearLoad(life)
    /\ main_pc' = main_after(main_pc, IF code_snippets' # <<>> THEN "snippets" ELSE "none")
    /\ UNCHANGED <<faiss_index, disk, unreadable, tree>>
    /\ UNCHANGED <<cacheVars, metricsVars, threadVars, cacheHist, recorded, calls>>

\* Fault: the rebuild empties the result cache.
cache_after_build_Cleared(c) == <<>>
\* The result cache after build_search_index and save_index: neither calls it.
cache_after_build(c) == c

\* build_search_index(), which ends with save_index().
BuildSearchIndex ==
    /\ Idle
    /\ IF code_snippets = <<>>
       THEN UNCHANGED <<faiss_index, disk, unreadable, life>>
       ELSE /\ faiss_index' = built_index(code_snippets)
            /\ disk' = [index |-> built_index(code_snippets), meta |-> metadata]
            /\ unreadable' = {}
            /\ life' = [saved |-> Some([EngineState EXCEPT
                                           !.faiss_index = built_index(code_snippets)]),
                        load |-> "none", fresh |-> FALSE]
    /\ main_pc' = main_after(main_pc, "built")
    /\ cache' = cache_after_build(cache)
    /\ UNCHANGED <<code_snippets, total_files_indexed, total_lines_indexed,
                   total_repositories, tree>>
    /\ UNCHANGED <<hits, misses, cache_lock, metricsVars, threadVars, cacheHist,
                   recorded, calls>>

\* The process ends and the program is started again: a new engine, a new
\* cache and a new tracker.
Restarted ==
    /\ code_snippets' = <<>>
    /\ faiss_index' = None
    /\ total_files_indexed' = 0
    /\ total_lines_indexed' = 0
    /\ total_repositories' = 0
    /\ cache' = <<>> /\ hits' = 0 /\ misses' = 0
    /\ total_queries' = 0
    /\ total_search_time' = 0
    /\ queries_under_50ms' = 0
    /\ queries_under_200ms' = 0
    /\ query_history' = <<>>
    /\ cache_op' = None /\ last_use' = <<>> /\ tick' = 0 /\ gets' = 0 /\ touched' = None
    /\ recorded' = <<>> /\ calls' = <<>>
    /\ now' = 1
    /\ main_pc' = IF main_pc = MainOff THEN MainOff ELSE MainStart
    /\ UNCHANGED <<cache_lock, metrics_lock, threadVars, tree>>

\* build_search_index() whose save_index() is cut short after faiss.write_index
\* and before metadata.json is opened (the process is killed); the program is
\* then started again, over the same index directory.
SaveInterrupted ==
    /\ Idle
    /\ code_snippets # <<>>
    /\ disk' = [disk EXCEPT !.index = built_index(code_snippets)]
    /\ disk'.index # disk.index
    /\ unreadable' = unreadable \ {"index"}
    /\ life' = NoLife
    /\ Restarted

\* build_search_index() whose save_index() is cut short in the middle of
\* writing one file, which is left on disk without its end; the program is
\* then started again, over the same index directory.
SaveCutShort(artifact) ==
    /\ Idle
    /\ code_snippets # <<>>
    /\ IF artifact = "index"
       THEN /\ disk' = [disk EXCEPT !.index = built_index(code_snippets)]
            /\ unreadable' = unreadable \cup {"index"}
       ELSE /\ disk' = [index |-> built_index(code_snippets), meta |-> metadata]
            /\ unreadable' = (unreadable \ {"index"}) \cup {"meta"}
    /\ life' = NoLife
    /\ Restarted

\* The program is started again over the same index directory: a new
\* CodeSearchEngine(index_dir).
Restart ==
    /\ Idle
    /\ ~IsFresh
    /\ life' = ClearLoad(life)
    /\ Restarted
    /\ UNCHANGED <<disk, unreadable>>

\* load_index().
LoadIndex ==
    /\ Idle
    /\ LET outcome == load_index_outcome(disk, unreadable)
       IN  /\ IF outcome = "True"
              THEN /\ faiss_index' = disk.index
                   /\ code_snippets' = disk.meta[1].code_snippets
                   /\ total_files_indexed' = disk.meta[1].total_files
                   /\ total_lines_indexed' = disk.meta[1].total_lines
                   /\ total_repositories' = disk.meta[1].total_repositories
              ELSE IF outcome = "raised" /\ ~read_index_raises(disk, unreadable)
              THEN \* self.faiss_index is assigned before json.load raises
                   /\ faiss_index' = disk.index
                   /\ UNCHANGED <<code_snippets, total_files_indexed,
                                  total_lines_indexed, total_repositories>>
              ELSE UNCHANGED <<faiss_index, code_snippets, total_files_indexed,
                               total_lines_indexed, total_repositories>>
           /\ life' = [life EXCEPT !.load = outcome, !.fresh = IsFresh]
           /\ main_pc' = main_after(main_pc, outcome)
    /\ UNCHANGED <<disk, unreadable, tree>>
    /\ UNCHANGED <<cacheVars, metricsVars, threadVars, cacheHist, recorded, calls>>

\* The search calls made so far.
SearchesStarted ==
    hits + misses + Cardinality({n \in DOMAIN calls : ~calls[n].ready})
        + Cardinality({t \in Threads : pc[t] = "get"})

\* search(query, top_k) when faiss_index is None: return [], 0, False.
SearchNotReady(t, query, top_k) ==
    /\ pc[t] = "idle"
    /\ SearchesStarted < MaxSearches
    /\ ~index_ready(faiss_index)
    /\ calls' = Append(calls, Returned([IdleFrame EXCEPT !.query = query,
                                                         !.top_k = top_k], FALSE))
    /\ life' = ClearLoad(life)
    /\ UNCHANGED <<cacheVars, metricsVars, engineVars, threadVars, cacheHist, recorded>>

\* search(query, top_k) up to the cache key.
SearchBegin(t, query, top_k) ==
    /\ pc[t] = "idle"
    /\ SearchesStarted < MaxSearches
    /\ index_ready(faiss_index)
    /\ frame' = [frame EXCEPT ![t] = [IdleFrame EXCEPT !.query = query,
                                                       !.top_k = top_k,
                                                       !.cache_key = cache_key(query, top_k)]]
    /\ pc' = [pc EXCEPT ![t] = "get"]
    /\ life' = ClearLoad(life)
    /\ UNCHANGED <<cacheVars, metricsVars, engineVars, cacheHist, recorded, calls>>

\* cached_result = self.cache.get(cache_key), and the test of it.
SearchCacheGet(t) ==
    /\ pc[t] = "get"
    /\ lock_open(cache_lock, t)
    /\ LET key == frame[t].cache_key
           cached_result == get_result(cache, key)
           hit == cached_result # None
       IN  /\ LRUCache_get(key)
           /\ frame' = [frame EXCEPT ![t] =
                  IF hit
                  THEN [@ EXCEPT !.search_time = cached_search_time(cached_result[1]),
                                 !.results = cached_result[1].results,
                                 !.from_cache = TRUE]
                  ELSE @]
           /\ pc' = [pc EXCEPT ![t] = pc_after_get(hit)]
    /\ UNCHANGED <<metricsVars, engineVars, recorded, calls, life>>

\* The search proper: encode, faiss_index.search, the results, and search_time.
\* self.faiss_index.search of None raises AttributeError, code_snippets[idx]
\* out of range raises IndexError.
SearchCompute(t, elapsed) ==
    /\ pc[t] = "compute"
    /\ IF faiss_index = None
       THEN /\ frame' = [frame EXCEPT ![t].error = "AttributeError",
                                      ![t].encode_calls = @ + 1]
            /\ pc' = [pc EXCEPT ![t] = "raised"]
       ELSE LET found == index_search(faiss_index[1], encode(frame[t].query),
                                      frame[t].top_k)
            IN  IF prepare_raises(code_snippets, found.indices)
                THEN /\ frame' = [frame EXCEPT ![t].error = "IndexError",
                                               ![t].encode_calls = @ + 1,
                                               ![t].index_calls = @ + 1]
                     /\ pc' = [pc EXCEPT ![t] = "raised"]
                ELSE /\ frame' = [frame EXCEPT ![t] =
                            [@ EXCEPT !.results = prepare_results(code_snippets,
                                                                  found.indices,
                                                                  found.distances),
                                      !.search_time = elapsed,
                                      !.indices = found.indices,
                                      !.distances = found.distances,
                                      !.encode_calls = @ + 1,
                                      !.index_calls = @ + 1]]
                     /\ pc' = [pc EXCEPT ![t] = "put"]
    /\ UNCHANGED <<cacheVars, metricsVars, engineVars, cacheHist, recorded, calls, life>>

\* self.model.encode([query]) raises.
SearchEncodeFails(t) ==
    /\ pc[t] = "compute"
    /\ frame[t].error = ""
    /\ frame' = [frame EXCEPT ![t].error = "encode",
                              ![t].encode_calls = @ + 1]
    /\ pc' = [pc EXCEPT ![t] = pc_after_failure("encode")]
    /\ UNCHANGED <<cacheVars, metricsVars, engineVars, cacheHist, recorded, calls, life>>

\* self.faiss_index.search(query_embedding, top_k) raises.
SearchIndexFails(t) ==
    /\ pc[t] = "compute"
    /\ frame[t].error = ""
    /\ faiss_index # None
    /\ frame' = [frame EXCEPT ![t].error = "search",
                              ![t].encode_calls = @ + 1,
                              ![t].index_calls = @ + 1]
    /\ pc' = [pc EXCEPT ![t] = pc_after_failure("search")]
    /\ UNCHANGED <<cacheVars, metricsVars, engineVars, cacheHist, recorded, calls, life>>

\* The exception leaves search: its caller gets no results.
SearchRaise(t) ==
    /\ pc[t] = "raised"
    /\ frame' = [frame EXCEPT ![t] = IdleFrame]
    /\ pc' = [pc EXCEPT ![t] = "idle"]
    /\ UNCHANGED <<cacheVars, metricsVars, engineVars, cacheHist, recorded, calls, life>>

\* self.cache.put(cache_key, {'results': results, 'search_time': search_time}).
SearchCachePut(t) ==
    /\ pc[t] = "put"
    /\ lock_open(cache_lock, t)
    /\ LRUCache_put(frame[t].cache_key,
                    [results |-> frame[t].results, search_time |-> frame[t].search_time])
    /\ pc' = [pc EXCEPT ![t] = "record"]
    /\ UNCHANGED <<metricsVars, engineVars, frame, recorded, calls, life>>

\* LRUCache.get or LRUCache.put, entered: `with self.lock` takes the lock.
CacheLockAcquire(t) ==
    /\ pc[t] \in {"get", "put"}
    /\ lock_free(cache_lock)
    /\ cache_lock' = Some(t)
    /\ UNCHANGED <<cache, hits, misses, metricsVars, engineVars, threadVars, cacheHist,
                   recorded, calls, life>>

\* record_query, entered: the lock is taken and the fields are read.
RecordAcquire(t) ==
    /\ pc[t] = "record"
    /\ lock_free(metrics_lock)
    /\ metrics_lock' = Some(t)
    /\ frame' = [frame EXCEPT ![t].read = Metrics]
    /\ pc' = [pc EXCEPT ![t] = "recording"]
    /\ UNCHANGED <<cacheVars, total_queries, total_search_time, queries_under_50ms,
                   queries_under_200ms, query_history, now, engineVars, cacheHist,
                   recorded, calls, life>>

\* record_query, its first two statements: total_queries and total_search_time
\* are written.
RecordCount(t) ==
    /\ pc[t] = "recording"
    /\ LET m == record_query_fields(frame[t].read, frame[t].query,
                                    frame[t].search_time, frame[t].from_cache, now)
       IN  /\ total_queries' = m.total_queries
           /\ total_search_time' = m.total_search_time
    /\ pc' = [pc EXCEPT ![t] = "bucketing"]
    /\ UNCHANGED <<cacheVars, queries_under_50ms, queries_under_200ms, query_history,
                   metrics_lock, now, engineVars, frame, cacheHist, recorded, calls, life>>

\* record_query, left: the buckets and the history are written and the lock is
\* released.
RecordRelease(t) ==
    /\ pc[t] = "bucketing"
    /\ LET m == record_query_fields(frame[t].read, frame[t].query,
                                    frame[t].search_time, frame[t].from_cache, now)
       IN  /\ queries_under_50ms' = m.queries_under_50ms
           /\ queries_under_200ms' = m.queries_under_200ms
           /\ query_history' = m.query_history
    /\ now' = now + 1
    /\ metrics_lock' = lock_released(metrics_lock)
    /\ recorded' = Append(recorded, [query |-> frame[t].query,
                                     time_ms |-> frame[t].search_time,
                                     cached |-> frame[t].from_cache,
                                     timestamp |-> now])
    /\ pc' = [pc EXCEPT ![t] = "return"]
    /\ UNCHANGED <<cacheVars, total_queries, total_search_time, engineVars, frame,
                   cacheHist, calls, life>>

\* return results, search_time, from_cache.
SearchReturn(t) ==
    /\ pc[t] = "return"
    /\ calls' = Append(calls, Returned(frame[t], TRUE))
    /\ frame' = [frame EXCEPT ![t] = IdleFrame]
    /\ pc' = [pc EXCEPT ![t] = "idle"]
    /\ UNCHANGED <<cacheVars, metricsVars, engineVars, cacheHist, recorded, life>>

\* stats_api, entered: cache.get_stats() computes total and hit_rate.
CacheStatsTotal(t) ==
    /\ pc[t] = "idle"
    /\ frame' = [frame EXCEPT ![t] =
           [IdleFrame EXCEPT !.total = LRUCache_get_stats_total,
                             !.hit_rate = LRUCache_get_stats_hit_rate(LRUCache_get_stats_total)]]
    /\ pc' = [pc EXCEPT ![t] = "cache_dict"]
    /\ UNCHANGED <<cacheVars, metricsVars, engineVars, cacheHist, recorded, calls, life>>

\* cache.get_stats() builds the dict it returns.
CacheStatsDict(t) ==
    /\ pc[t] = "cache_dict"
    /\ frame' = [frame EXCEPT ![t].cache_stats =
           LRUCache_get_stats_result(frame[t].total, frame[t].hit_rate)]
    /\ pc' = [pc EXCEPT ![t] = "metrics_stats"]
    /\ UNCHANGED <<cacheVars, metricsVars, engineVars, cacheHist, recorded, calls, life>>

\* metrics.get_stats(): the whole of it runs holding the lock.
MetricsGetStats(t) ==
    /\ pc[t] = "metrics_stats"
    /\ stats_lock_free(metrics_lock)
    /\ frame' = [frame EXCEPT ![t].metrics_stats = MetricsTracker_get_stats]
    /\ pc' = [pc EXCEPT ![t] = "stats_return"]
    /\ UNCHANGED <<cacheVars, metricsVars, engineVars, cacheHist, recorded, calls, life>>

\* stats_api returns the two results.
StatsReturn(t) ==
    /\ pc[t] = "stats_return"
    /\ frame' = [frame EXCEPT ![t] = IdleFrame]
    /\ pc' = [pc EXCEPT ![t] = "idle"]
    /\ UNCHANGED <<cacheVars, metricsVars, engineVars, cacheHist, recorded, calls, life>>

\* The queries, result counts and measured latencies of the search calls.
Queries == {<<"a">>}
TopKs == {1, 3}
SearchLatencies == {49, 200}

-----------------------------------------------------------------------------
(* SpecChunk: index_repository called once, on a directory that holds one  *)
(* file.                                                                   *)

\* The lengths of the files, in lines: around the multiples of chunk_size.
FileLengths == {n \in 0..MaxFileLines : n % chunk_size \in {0, 1, 20, chunk_size - 1}}
ChunkIndexes == 0..(MaxFileLines \div chunk_size)

\* The n lines of a file: whitespace in the chunks of blank; elsewhere every
\* line holds code (dense) or only the first line of each chunk does.
PatternLines(n, blank, dense) ==
    [i \in 1..n |-> IF ((i - 1) \div chunk_size) \in blank THEN " "
                    ELSE IF dense \/ (i - 1) % chunk_size = 0 THEN "x"
                    ELSE " "]

ChunkFiles ==
    {SourceFile(<<"f.py">>, ".py", TRUE, FileText(PatternLines(n, blank, dense), terminated)) :
        n \in FileLengths, blank \in SUBSET ChunkIndexes, dense \in BOOLEAN,
        terminated \in BOOLEAN}

ChunkRepo(f) == [path |-> <<"repos", "c">>, exists |-> TRUE, files |-> <<f>>]

InitChunk ==
    /\ InitCache /\ InitMetrics /\ InitThreads /\ InitHistory
    /\ \E f \in ChunkFiles : InitEngineOn({ChunkRepo(f)})

IndexOnce(repo) ==
    /\ total_repositories = 0
    /\ IndexRepository(repo)

NextChunk == \E repo \in tree : IndexOnce(repo)

SpecChunk == InitChunk /\ [][NextChunk]_vars

-----------------------------------------------------------------------------
(* SpecSelect: index_repository called once, on a directory that holds one  *)
(* file, for directories at different places and files of every kind.       *)

\* repo_path, as its parts: under ./repos, under a directory named build, and
\* a directory that is itself named dist.
SelectRoots == {<<"repos", "s">>, <<"home", "build", "s">>, <<"work", "dist">>}
\* The directories between repo_path and the file.
SelectDirs ==
    {<<>>, <<"src">>, <<"src", "lib">>} \cup {<<skip>> : skip \in skip_directories}
        \cup {<<"src", skip>> : skip \in skip_directories}
\* The names of the files, with their suffixes.
SelectNames == {<<"f.py", ".py">>, <<"f.json", ".json">>, <<"f.txt", ".txt">>, <<"f", "">>}

SelectFiles ==
    {SourceFile(Append(dir, name[1]), name[2], readable, <<"x">>) :
        dir \in SelectDirs, name \in SelectNames, readable \in BOOLEAN}

SelectRepo(path, f) == [path |-> path, exists |-> TRUE, files |-> <<f>>]

InitSelect ==
    /\ InitCache /\ InitMetrics /\ InitThreads /\ InitHistory
    /\ \E path \in SelectRoots, f \in SelectFiles : InitEngineOn({SelectRepo(path, f)})

NextSelect == \E repo \in tree : IndexOnce(repo)

SpecSelect == InitSelect /\ [][NextSelect]_vars

-----------------------------------------------------------------------------
(* SpecPersist: the index directory over the runs of the program: indexing, *)
(* building and saving, a save cut short, a new start, and load_index.      *)

NextPersist ==
    \/ \E repo \in tree : IndexRepository(repo)
    \/ BuildSearchIndex
    \/ SaveInterrupted
    \/ \E artifact \in Artifacts : SaveCutShort(artifact)
    \/ Restart
    \/ LoadIndex

SpecPersist == Init /\ [][NextPersist]_vars

-----------------------------------------------------------------------------
(* SpecE2E: a corpus of one file of 60 lines of code is indexed, the index *)
(* is built, and searches of 2 results are made.                           *)

E2ELines == 60
E2ETopK == 2

E2EFiles ==
    {SourceFile(<<"f.py">>, ".py", TRUE, FileText([i \in 1..E2ELines |-> "x"], terminated)) :
        terminated \in BOOLEAN}

\* The query texts: a short one, and one as long as a whole chunk.
E2EQueries == {<<"a">>, [i \in 1..chunk_size |-> "a"]}

InitE2E ==
    /\ InitCache /\ InitMetrics /\ InitThreads /\ InitHistory
    /\ \E f \in E2EFiles : InitEngineOn({ChunkRepo(f)})

NextE2E ==
    \/ \E repo \in tree : IndexOnce(repo)
    \/ BuildSearchIndex
    \/ \E query \in E2EQueries : SearchBegin(MainThread, query, E2ETopK)
    \/ SearchCacheGet(MainThread)
    \/ \E elapsed \in SearchLatencies : SearchCompute(MainThread, elapsed)
    \/ SearchCachePut(MainThread)
    \/ RecordAcquire(MainThread)
    \/ RecordCount(MainThread)
    \/ RecordRelease(MainThread)
    \/ SearchReturn(MainThread)

SpecE2E == InitE2E /\ [][NextE2E]_vars

-----------------------------------------------------------------------------
(* Spec: the program run by its main thread: indexing, building, loading   *)
(* and searching, one call at a time.                                      *)

Next ==
    \/ \E repo \in tree : IndexRepository(repo)
    \/ BuildSearchIndex
    \/ SaveInterrupted
    \/ LoadIndex
    \/ \E query \in Queries, top_k \in TopKs : SearchNotReady(MainThread, query, top_k)
    \/ \E query \in Queries, top_k \in TopKs : SearchBegin(MainThread, query, top_k)
    \/ SearchCacheGet(MainThread)
    \/ \E elapsed \in SearchLatencies : SearchCompute(MainThread, elapsed)
    \/ SearchCachePut(MainThread)
    \/ RecordAcquire(MainThread)
    \/ RecordCount(MainThread)
    \/ RecordRelease(MainThread)
    \/ SearchReturn(MainThread)

Spec == Init /\ [][Next]_vars

-----------------------------------------------------------------------------
(* SpecConc: the serving phase: the index of RepoA is built and saved, and *)
(* the threads of the server run search concurrently.                      *)

InitServing ==
    LET w == walk(RepoA, RepoA.files)
    IN  /\ tree = Repos
        /\ main_pc = MainOff
        /\ code_snippets = w.snippets
        /\ faiss_index = built_index(w.snippets)
        /\ total_files_indexed = w.files
        /\ total_lines_indexed = w.lines
        /\ total_repositories = 1
        /\ disk = [index |-> faiss_index, meta |-> metadata]
        /\ unreadable = {}
        /\ life = [NoLife EXCEPT !.saved = Some(EngineState)]

InitConc == InitCache /\ InitMetrics /\ InitServing /\ InitThreads /\ InitHistory

NextConc ==
    \E t \in Threads :
        \/ \E query \in Queries, top_k \in TopKs : SearchBegin(t, query, top_k)
        \/ SearchCacheGet(t)
        \/ \E elapsed \in SearchLatencies : SearchCompute(t, elapsed)
        \/ SearchCachePut(t)
        \/ RecordAcquire(t)
        \/ RecordCount(t)
        \/ RecordRelease(t)
        \/ SearchReturn(t)

SpecConc == InitConc /\ [][NextConc]_vars

-----------------------------------------------------------------------------
(* SpecStats: the serving phase with one thread in search_api and another  *)
(* in stats_api.                                                           *)

SearchThread == 1
StatsThread == 2

NextStats ==
    \/ \E query \in Queries, top_k \in TopKs : SearchBegin(SearchThread, query, top_k)
    \/ SearchCacheGet(SearchThread)
    \/ \E elapsed \in SearchLatencies : SearchCompute(SearchThread, elapsed)
    \/ SearchCachePut(SearchThread)
    \/ RecordAcquire(SearchThread)
    \/ RecordCount(SearchThread)
    \/ RecordRelease(SearchThread)
    \/ SearchReturn(SearchThread)
    \/ CacheStatsTotal(StatsThread)
    \/ CacheStatsDict(StatsThread)
    \/ MetricsGetStats(StatsThread)
    \/ StatsReturn(StatsThread)

SpecStats == InitConc /\ [][NextStats]_vars

-----------------------------------------------------------------------------
(* SpecFail: the serving phase, one search at a time, where the embedding  *)
(* model and the vector index may fail.                                    *)

NextFail ==
    \/ \E query \in Queries, top_k \in TopKs : SearchBegin(MainThread, query, top_k)
    \/ SearchCacheGet(MainThread)
    \/ \E elapsed \in SearchLatencies : SearchCompute(MainThread, elapsed)
    \/ SearchEncodeFails(MainThread)
    \/ SearchIndexFails(MainThread)
    \/ SearchRaise(MainThread)
    \/ SearchCachePut(MainThread)
    \/ RecordAcquire(MainThread)
    \/ RecordCount(MainThread)
    \/ RecordRelease(MainThread)
    \/ SearchReturn(MainThread)

SpecFail == InitConc /\ [][NextFail]_vars

-----------------------------------------------------------------------------
(* SpecKey: the serving phase, one search at a time, with queries that     *)
(* hold the characters of the key's own format.                            *)

KeyQueries == {<<"a">>, <<"a", ":", "1">>}
KeyTopKs == {1, 2}

NextKey ==
    \/ \E query \in KeyQueries, top_k \in KeyTopKs : SearchBegin(MainThread, query, top_k)
    \/ SearchCacheGet(MainThread)
    \/ \E elapsed \in SearchLatencies : SearchCompute(MainThread, elapsed)
    \/ SearchCachePut(MainThread)
    \/ RecordAcquire(MainThread)
    \/ RecordCount(MainThread)
    \/ RecordRelease(MainThread)
    \/ SearchReturn(MainThread)

SpecKey == InitConc /\ [][NextKey]_vars

-----------------------------------------------------------------------------
(* SpecLock: two request threads search the built index; taking the cache   *)
(* lock is a step of its own, and every thread that can go on does so.      *)

\* The latency the searches measure.
LockLatencies == {49}

\* A step of thread t inside a search it has begun.
SearchStep(t) ==
    \/ CacheLockAcquire(t)
    \/ SearchCacheGet(t)
    \/ \E elapsed \in LockLatencies : SearchCompute(t, elapsed)
    \/ SearchCachePut(t)
    \/ RecordAcquire(t)
    \/ RecordCount(t)
    \/ RecordRelease(t)
    \/ SearchReturn(t)

NextLock ==
    \E t \in Threads :
        \/ \E query \in Queries, top_k \in TopKs : SearchBegin(t, query, top_k)
        \/ SearchStep(t)

\* The scheduler lets every thread run: a thread that can take a step of its
\* search for ever does take one.
SpecLock ==
    /\ InitConc
    /\ [][NextLock]_vars
    /\ \A t \in Threads : WF_vars(SearchStep(t))

-----------------------------------------------------------------------------
(* SpecMain: the program as main() runs it: load_index, or else the         *)
(* indexing the user chooses and build_search_index; then the menu, with    *)
(* its search mode, its statistics and its API server.                      *)

\* search_engine.search(query, top_k=5) of the search mode and the load test.
MainTopK == 5
\* The paths choice 2 indexes, in order: ./cloned_repos/<repo_name>.
MainClones == <<RepoA.path, RepoMissing.path, RepoB.path>>
\* The menu commands that leave the menu: search (and load), api, quit.
MenuCommands == {"search", "api", "done"}

\* Fault: quit indexes the cloned repositories again.
menu_target_QuitReindexes(command) ==
    IF command = "done" THEN [at |-> "index_2", todo |-> MainClones] ELSE MainAt(command)
\* Where main() is after the menu command.
menu_target(command) == MainAt(command)

\* Only main_pc changes.
MainMoves(m) ==
    /\ main_pc' = m
    /\ UNCHANGED <<code_snippets, faiss_index, total_files_indexed, total_lines_indexed,
                   total_repositories, disk, unreadable, tree>>
    /\ UNCHANGED <<cacheVars, metricsVars, threadVars, cacheHist, recorded, calls, life>>

\* if not search_engine.load_index():
MainLoadIndex == main_pc.at = "load" /\ LoadIndex

\* choice "1": the path is asked for; os.path.exists(path) decides.
MainChoice1(repo) ==
    /\ main_pc.at = "choice"
    /\ MainMoves(IF repo.exists THEN [at |-> "index_1", todo |-> <<repo.path>>]
                 ELSE MainAt("done"))

\* choice "2": the repositories are cloned and indexed one after the other.
MainChoice2 ==
    /\ main_pc.at = "choice"
    /\ MainMoves([at |-> "index_2", todo |-> MainClones])

\* Any other choice: neither branch runs and main() goes on to the menu.
MainNoChoice ==
    /\ main_pc.at = "choice"
    /\ MainMoves(MainAt("menu"))

\* search_engine.index_repository(path) / (repo_path).
MainIndexRepository ==
    /\ main_pc.at \in {"index_1", "index_2"}
    /\ \E repo \in tree : repo.path = Head(main_pc.todo) /\ IndexRepository(repo)

\* search_engine.build_search_index().
MainBuildSearchIndex == main_pc.at = "build" /\ BuildSearchIndex

\* A menu command is read.
MainCommand(command) ==
    /\ main_pc.at = "menu"
    /\ Idle
    /\ MainMoves(menu_target(command))

\* 'back' in the search mode; the load test has run all its queries.
MainBack ==
    /\ main_pc.at = "search"
    /\ Idle
    /\ MainMoves(MainAt("menu"))

\* app.run returns (the server is stopped) and main() leaves its loop.
MainServerStops ==
    /\ main_pc.at = "api"
    /\ Idle
    /\ MainMoves(MainAt("done"))

\* main() has returned; the program is run again.
MainAgain == main_pc.at = "done" /\ Restart

\* Thread t can be inside search: the main thread in the search mode and the
\* load test, every request thread while the server runs.
Searching(t) == main_pc.at = "api" \/ (main_pc.at = "search" /\ t = MainThread)
\* Thread t can be reading the statistics: the main thread at the menu
\* (command stats), every request thread while the server runs.
ReadingStats(t) == main_pc.at = "api" \/ (main_pc.at = "menu" /\ t = MainThread)

\* metrics_api, entered: it calls metrics.get_stats() only.
MetricsApi(t) ==
    /\ pc[t] = "idle"
    /\ frame' = [frame EXCEPT ![t] = IdleFrame]
    /\ pc' = [pc EXCEPT ![t] = "metrics_stats"]
    /\ UNCHANGED <<cacheVars, metricsVars, engineVars, cacheHist, recorded, calls, life>>

NextMain ==
    \/ MainLoadIndex
    \/ \E repo \in tree : MainChoice1(repo)
    \/ MainChoice2
    \/ MainNoChoice
    \/ MainIndexRepository
    \/ MainBuildSearchIndex
    \/ \E command \in MenuCommands : MainCommand(command)
    \/ MainBack
    \/ MainServerStops
    \/ MainAgain
    \/ \E t \in Threads :
          /\ Searching(t)
          /\ \/ \E query \in Queries : SearchNotReady(t, query, MainTopK)
             \/ \E query \in Queries : SearchBegin(t, query, MainTopK)
             \/ SearchCacheGet(t)
             \/ \E elapsed \in LockLatencies : SearchCompute(t, elapsed)
             \/ SearchCachePut(t)
             \/ RecordAcquire(t)
             \/ RecordCount(t)
             \/ RecordRelease(t)
             \/ SearchReturn(t)
    \/ \E t \in Threads :
          /\ ReadingStats(t)
          /\ \/ CacheStatsTotal(t)
             \/ CacheStatsDict(t)
             \/ MetricsGetStats(t)
             \/ StatsReturn(t)
    \/ \E t \in Threads : main_pc.at = "api" /\ MetricsApi(t)

InitMain ==
    /\ InitCache /\ InitMetrics /\ InitThreads /\ InitHistory
    /\ InitEngineAt(Repos, MainStart)

SpecMain == InitMain /\ [][NextMain]_vars

-----------------------------------------------------------------------------
(* Properties of the LRUCache, checked under SpecCache.                    *)

LastOpIs(op) == cache_op # None /\ cache_op[1].op = op
\* The keys the last LRUCache call removed.
Evicted == Keys(cache_op[1].before) \ Keys(cache)

\* C3: after a put has returned the cache holds at most capacity entries; the
\* put evicted exactly one entry if it inserted a new key into a full cache,
\* and none otherwise (none when the key was already present).
C3_PutEvictsOneWhenFull ==
    LastOpIs("put") =>
        LET before == cache_op[1].before
            key    == cache_op[1].key
        IN  /\ Len(cache) <= capacity
            /\ Cardinality(Keys(cache)) = Len(cache)
            /\ key \in Keys(cache)
            /\ Cardinality(Evicted) =
                   IF key \notin Keys(before) /\ Len(before) = capacity THEN 1 ELSE 0

\* A put of a new key found the cache full; and a put of a present key found it full.
C3_Witness ==
    /\ LastOpIs("put")
    /\ cache_op[1].key \notin Keys(cache_op[1].before)
    /\ Len(cache_op[1].before) = capacity
C3_WitnessRefresh ==
    /\ LastOpIs("put")
    /\ cache_op[1].key \in Keys(cache_op[1].before)
    /\ Len(cache_op[1].before) = capacity

\* capacity + 1 distinct keys were put, and nothing else was called.
OnlyDistinctPuts ==
    /\ tick = capacity + 1
    /\ hits + misses = 0
    /\ Cardinality(DOMAIN last_use) = capacity + 1

\* C4: the key a put evicts is the stored key whose latest successful get or
\* put is the oldest; after capacity + 1 puts of distinct keys and no get, the
\* cache holds capacity entries and the first key put is the absent one.
C4_EvictsLeastRecentlyUsed ==
    /\ LastOpIs("put") =>
           \A e \in Evicted : \A k \in Keys(cache_op[1].before) :
               last_use[e] <= last_use[k]
    /\ OnlyDistinctPuts =>
           /\ Len(cache) = capacity
           /\ \A k \in DOMAIN last_use : k \in Keys(cache) <=> last_use[k] # 1

\* A put evicted a key from a cache in which some key had been read after its put.
C4_Witness ==
    /\ LastOpIs("put")
    /\ Evicted # {}
    /\ hits > 0
    /\ \E k \in Keys(cache) : \E e \in Evicted : last_use[k] > last_use[e] + 1
C4_WitnessDistinctPuts == OnlyDistinctPuts

\* C5: a get that hits key k makes k the most recently used entry: k is last
\* in the order, and while only puts of new distinct keys follow, k is not
\* evicted before every other key stored at the time of the get.
C5_GetHitIsMostRecent ==
    /\ (LastOpIs("get") /\ cache_op[1].key \in Keys(cache_op[1].before)) =>
           cache[Len(cache)].key = cache_op[1].key
    /\ touched # None =>
           (touched[1].key \notin Keys(cache) => touched[1].others \cap Keys(cache) = {})

\* After the get, puts of new keys evicted an older key and left k stored; and
\* further puts evicted k, after all the others.
C5_Witness ==
    /\ touched # None
    /\ touched[1].key \in Keys(cache)
    /\ touched[1].others \ Keys(cache) # {}
    /\ cache[1].key = touched[1].key
C5_WitnessEvictedLast ==
    /\ touched # None
    /\ touched[1].others # {}
    /\ touched[1].key \notin Keys(cache)

-----------------------------------------------------------------------------
(* Properties of the MetricsTracker, checked under SpecMetrics.            *)

\* The latencies recorded so far, in order.
RecordedTimes == [i \in DOMAIN recorded |-> recorded[i].time_ms]
CountBelow(limit) == Cardinality({i \in DOMAIN recorded : recorded[i].time_ms < limit})

\* C7: after N record_query calls get_stats reports total_queries = N and the
\* two buckets count the latencies strictly below 50 and strictly below 200.
C7_StrictBuckets ==
    /\ MetricsTracker_get_stats.total_queries = Len(recorded)
    /\ MetricsTracker_get_stats.queries_under_50ms = CountBelow(50)
    /\ MetricsTracker_get_stats.queries_under_200ms = CountBelow(200)

\* Latencies of exactly 50 and of exactly 200 were recorded, and one below 50.
C7_Witness ==
    /\ \E i \in DOMAIN recorded : recorded[i].time_ms = 50
    /\ \E i \in DOMAIN recorded : recorded[i].time_ms = 200
    /\ \E i \in DOMAIN recorded : recorded[i].time_ms < 50

\* C8 as stated: the reported average equals sum(t)/N exactly.
C8_AverageExact ==
    Len(recorded) >= 1 =>
        MetricsTracker_get_stats.average_search_time_ms * Len(recorded)
            = 100 * SumSeq(RecordedTimes)

\* C8, amended: the reported average is sum(t)/N rounded to two decimals: the
\* hundredth nearest to sum(t)/N, at most 0.005 away from it.
C8_AverageRounded ==
    Len(recorded) >= 1 =>
        LET avg  == MetricsTracker_get_stats.average_search_time_ms
            diff == avg * Len(recorded) - 100 * SumSeq(RecordedTimes)
        IN  /\ 2 * diff <= Len(recorded)
            /\ 2 * (-diff) <= Len(recorded)

\* Three latencies whose mean has more than two decimals were recorded.
C8_Witness ==
    /\ Len(recorded) = 3
    /\ (100 * SumSeq(RecordedTimes)) % 3 # 0

\* C9: query_history holds the min(N, limit) latest records, in the order they
\* were recorded: appending to a full history drops the oldest record only.
C9_HistoryIsLatestWindow ==
    LET n == Len(recorded)
        kept == Min(n, HistoryLimit)
    IN  query_history = SubSeq(recorded, n - kept + 1, n)

\* More records than the history keeps were recorded.
C9_Witness == Len(recorded) > HistoryLimit /\ Len(query_history) = HistoryLimit

-----------------------------------------------------------------------------
(* Properties of search, checked under Spec (one thread).                  *)

\* The calls that returned past the test of faiss_index.
ReadyCalls == SelectIdx(calls, {n \in DOMAIN calls : calls[n].ready})

\* C1: when search(q, top_k) returns on a built index and the next search call
\* has the same q and top_k, that call returns from_cache = TRUE with the
\* results and the search_time the first call returned (whether or not the
\* index was rebuilt in between).
C1_RepeatedSearchIsCached ==
    \A n \in 2..Len(calls) :
        LET first  == calls[n - 1]
            second == calls[n]
        IN  (first.ready /\ second.query = first.query /\ second.top_k = first.top_k) =>
                /\ second.from_cache
                /\ second.results = first.results
                /\ second.search_time = first.search_time

\* A search that computed results was repeated.
C1_Witness ==
    \E n \in 2..Len(calls) :
        /\ calls[n - 1].ready /\ ~calls[n - 1].from_cache
        /\ calls[n - 1].results # <<>>
        /\ calls[n].query = calls[n - 1].query /\ calls[n].top_k = calls[n - 1].top_k
        /\ calls[n].from_cache

\* C2 as stated: every search that returned, on whatever path, was recorded
\* once: total_queries is the number of returned searches.
C2_EveryReturnRecorded == Idle => total_queries = Len(calls)

\* C2, amended: a search that returns after a cache hit or a cache miss has
\* been recorded exactly once, and a search that returns because no index
\* exists is not recorded: total_queries is the number of returned searches
\* that found an index, and the records are theirs, one each, in order.
C2_ReadyReturnsRecordedOnce ==
    Idle =>
        /\ total_queries = Len(ReadyCalls)
        /\ Len(recorded) = Len(ReadyCalls)
        /\ \A n \in DOMAIN ReadyCalls :
               /\ recorded[n].query = ReadyCalls[n].query
               /\ recorded[n].time_ms = ReadyCalls[n].search_time
               /\ recorded[n].cached = ReadyCalls[n].from_cache

\* A search returned without an index, one after a miss and one after a hit.
C2_Witness ==
    /\ Idle
    /\ \E n \in DOMAIN calls : ~calls[n].ready
    /\ \E n \in DOMAIN calls : calls[n].ready /\ ~calls[n].from_cache
    /\ \E n \in DOMAIN calls : calls[n].ready /\ calls[n].from_cache

\* The results C6 describes for the labels the index returned: one result per
\* label p with 0 <= p < len(code_snippets), built from the snippet stored at p.
ValidPositionResults(snippets, indices, distances) ==
    LET ns   == [n \in DOMAIN indices |-> n]
        kept == SelectIdx(ns, {n \in DOMAIN indices : 0 <= indices[n] /\ indices[n] < Len(snippets)})
    IN  [j \in DOMAIN kept |-> format_result(snippets[indices[kept[j]] + 1],
                                             distances[kept[j]])]

\* C6: the results search prepares are those of the valid positions: a label
\* outside 0..len(code_snippets)-1, the -1 filler included, contributes none.
C6_OnlyValidPositions ==
    \A t \in Threads :
        pc[t] = "put" =>
            frame[t].results = ValidPositionResults(code_snippets, frame[t].indices,
                                                    frame[t].distances)

\* The index returned a label beyond the store, which search skipped.
C6_TooLargeSkipped ==
    \A t \in Threads :
        pc[t] = "put" =>
            \A n \in DOMAIN frame[t].indices :
                frame[t].indices[n] >= Len(code_snippets) =>
                    Len(frame[t].results) < Len(frame[t].indices)
C6_WitnessTooLarge ==
    \E t \in Threads :
        /\ pc[t] = "put"
        /\ \E n \in DOMAIN frame[t].indices : frame[t].indices[n] >= Len(code_snippets)

-----------------------------------------------------------------------------
(* Properties of concurrent searches, checked under SpecConc.              *)

CallTimes == [n \in DOMAIN calls |-> calls[n].search_time]

\* How many records of h are the record of query, time_ms and cached.
CountIn(h, query, time_ms, cached) ==
    Cardinality({n \in DOMAIN h : /\ h[n].query = query
                                  /\ h[n].time_ms = time_ms
                                  /\ h[n].cached = cached})

\* C10: when the concurrent searches have all returned, no metrics update is
\* lost or duplicated: total_queries is the number of returned searches,
\* total_search_time the sum of their latencies, the buckets count them, and
\* (while the history is not trimmed) each request has its one record.
C10_NoLostMetricsUpdate ==
    Idle =>
        /\ total_queries = Len(calls)
        /\ total_search_time = SumSeq(CallTimes)
        /\ queries_under_50ms = Cardinality({n \in DOMAIN calls : calls[n].search_time < 50})
        /\ queries_under_200ms = Cardinality({n \in DOMAIN calls : calls[n].search_time < 200})
        /\ Len(query_history) = Min(Len(calls), HistoryLimit)
        /\ Len(calls) <= HistoryLimit =>
               \A n \in DOMAIN calls :
                   CountIn(query_history, calls[n].query, calls[n].search_time,
                           calls[n].from_cache)
                     = Cardinality({m \in DOMAIN calls :
                                        /\ calls[m].query = calls[n].query
                                        /\ calls[m].search_time = calls[n].search_time
                                        /\ calls[m].from_cache = calls[n].from_cache})

\* All the searches returned, and two of them overlapped: the one recorded
\* first was not the one that returned first.
C10_Witness ==
    /\ Idle
    /\ Len(calls) = MaxSearches
    /\ recorded[1].time_ms # calls[1].search_time

-----------------------------------------------------------------------------
(* Properties of the two get_stats, checked under SpecStats.               *)

\* The threads that hold a result of LRUCache.get_stats.
HasCacheStats == {t \in Threads : pc[t] \in {"metrics_stats", "stats_return"}}

\* C11: a result of LRUCache.get_stats is one snapshot of the cache's
\* counters, also when gets run beside it: its total_queries is the sum of its
\* hits and its misses.
C11_CacheStatsOneSnapshot ==
    \A t \in HasCacheStats :
        LET r == frame[t].cache_stats
        IN  r.total_queries = r.hits + r.misses

\* The threads that hold a result of MetricsTracker.get_stats.
HasMetricsStats == {t \in Threads : pc[t] = "stats_return"}

-----------------------------------------------------------------------------
(* Properties of search without an index and of a failing search.          *)

\* The places of a thread that is inside search, past its first test.
InSearch == {"get", "compute", "put", "record", "recording", "bucketing", "return", "raised"}

\* C13: while faiss_index is None, every search call returns at once, without
\* raising: an empty list, latency 0 and from_cache false, for every query and
\* top_k.
C13_NotReadyReturnsEmpty ==
    /\ \A n \in DOMAIN calls :
           ~calls[n].ready =>
               /\ calls[n].results = <<>>
               /\ calls[n].search_time = 0
               /\ calls[n].from_cache = FALSE
    /\ faiss_index = None =>
           \A t \in Threads : pc[t] \notin InSearch /\ frame[t].error = ""

\* C13 witness: searches with both values of top_k have returned from an engine
\* that has no index.
C13_Witness ==
    /\ faiss_index = None
    /\ \E m, n \in DOMAIN calls :
           /\ ~calls[m].ready /\ ~calls[n].ready
           /\ calls[m].top_k # calls[n].top_k

\* The threads whose search has failed.
RaisedThreads == {t \in Threads : frame[t].error # ""}

\* C19: when the embedding or the index search of a cache miss fails, the
\* failure leaves search (nothing catches it, nothing is retried): the model was
\* called once, the index once after the model and not at all when the model
\* failed, and no cache entry is stored for the request.
C19_FailurePropagates ==
    \A t \in RaisedThreads :
        /\ pc[t] = "raised"
        /\ frame[t].encode_calls = 1
        /\ frame[t].index_calls = IF frame[t].error = "encode" THEN 0 ELSE 1
        /\ frame[t].cache_key \notin Keys(cache)
        /\ frame[t].results = <<>>

\* C19 witness: the index search of a miss fails after an earlier search has
\* filled the cache.
C19_Witness ==
    /\ pc[MainThread] = "raised"
    /\ frame[MainThread].error = "search"
    /\ cache # <<>>

\* C19 witness: the embedding fails.
C19_WitnessEncode ==
    /\ pc[MainThread] = "raised"
    /\ frame[MainThread].error = "encode"

-----------------------------------------------------------------------------
(* Properties of the chunking of index_repository, checked under SpecChunk.*)

\* The text of the one file of the directory.
TheText == (CHOOSE repo \in tree : TRUE).files[1].text

\* The number of lines of a text file: every "\n" ends a line, and the
\* characters after the last "\n" are one more line.
LineCount(text) ==
    Cardinality({p \in DOMAIN text : text[p] = "\n"})
        + (IF text # <<>> /\ Last(text) # "\n" THEN 1 ELSE 0)

\* The lines of the text, by number, that hold a character other than whitespace.
CodeLines(text) ==
    LET ends == {p \in DOMAIN text : text[p] = "\n"}
    IN  {1 + Cardinality({q \in ends : q < p}) : p \in {p \in DOMAIN text : text[p] = "x"}}

\* The chunks of the text, counted from 0, that hold such a line.
CodeChunks(text) == {(l - 1) \div chunk_size : l \in CodeLines(text)}

Indexed == total_repositories = 1

\* C14: a file of n lines, none of its chunks blank, is split into the chunks
\* j = 0, 1, ... of the ranges [50j + 1, min(50j + 50, n)], each with
\* line_end - line_start + 1 lines of content: 120 lines give [1,50], [51,100],
\* [101,120].
C14_ChunkRanges ==
    LET n      == LineCount(TheText)
        chunks == (n + chunk_size - 1) \div chunk_size
    IN  (Indexed /\ CodeChunks(TheText) = 0..(chunks - 1)) =>
            /\ Len(code_snippets) = chunks
            /\ \A j \in 0..(chunks - 1) :
                   LET snippet == code_snippets[j + 1]
                   IN  /\ snippet.line_start = chunk_size * j + 1
                       /\ snippet.line_end = Min(chunk_size * j + chunk_size, n)
                       /\ snippet.line_end - snippet.line_start + 1 = Len(snippet.content)

\* C15: a chunk that holds whitespace only is never appended, and the chunks
\* after it keep their line numbers: the snippets of a file are its chunks that
\* hold code, in order, chunk j starting at line 50j + 1 and holding the lines
\* of the file from there; a file of blank lines only adds no snippet.
C15_BlankChunksDropped ==
    Indexed =>
        LET code  == CodeLines(TheText)
            start == {s.line_start : s \in Range(code_snippets)}
        IN  /\ start = {chunk_size * j + 1 : j \in CodeChunks(TheText)}
            /\ \A k \in DOMAIN code_snippets :
                   LET s == code_snippets[k]
                   IN  /\ \E i \in DOMAIN s.content : s.content[i] = "x"
                       /\ \A i \in DOMAIN s.content :
                              s.content[i] = "x" <=> (s.line_start + i - 1) \in code
                       /\ k > 1 => code_snippets[k - 1].line_start < s.line_start
            /\ code = {} => code_snippets = <<>>

\* C15 witness: the middle chunk of a file of three chunks is blank, and the
\* third chunk is indexed from line 101 on.
C15_Witness ==
    /\ Indexed
    /\ CodeChunks(TheText) = {0, 2}
    /\ Len(code_snippets) = 2
    /\ code_snippets[2].line_start = 2 * chunk_size + 1

\* C15 witness: a file of blank lines only is read and adds no snippet.
C15_WitnessBlankFile ==
    /\ Indexed
    /\ total_files_indexed = 1
    /\ LineCount(TheText) > chunk_size
    /\ code_snippets = <<>>

-----------------------------------------------------------------------------
(* The end-to-end property, checked under SpecE2E.                         *)

\* The path of the one file of the corpus, relative to the corpus root.
TheFilePath ==
    LET repo == CHOOSE repo \in tree : TRUE
    IN  <<Last(repo.path)>> \o repo.files[1].rel

\* C16: after a corpus of one file of 60 lines of code is indexed and the index
\* built, every search of top_k = 2 returns exactly 2 results, both snippets of
\* that file, different from each other, each with a score in (0, 1].
C16_TwoSnippetsOfTheFile ==
    \A n \in DOMAIN calls :
        LET results == calls[n].results
        IN  /\ Len(results) = E2ETopK
            /\ results[1].line_start # results[2].line_start
            /\ \A r \in DOMAIN results :
                   /\ results[r].file = TheFilePath
                   /\ \E k \in DOMAIN code_snippets :
                          /\ results[r].line_start = code_snippets[k].line_start
                          /\ results[r].line_end = code_snippets[k].line_end
                          /\ results[r].content = code_snippets[k].content
                   /\ 0 < results[r].similarity_score.num
                   /\ results[r].similarity_score.num <= results[r].similarity_score.den

\* C16 witness: a computed search and a cached one have returned, one of them
\* for the query whose vector is that of the first chunk (score 1).
C16_Witness ==
    \E m, n \in DOMAIN calls :
        /\ ~calls[m].from_cache
        /\ calls[n].from_cache
        /\ calls[m].results[1].similarity_score.den = 1
        /\ calls[m].results[1].line_start = 1
        /\ calls[m].results[2].line_start = chunk_size + 1

-----------------------------------------------------------------------------
(* Properties of save_index and load_index, checked under SpecPersist.     *)

\* load_index has just returned True in a new engine, and the last save_index
\* over the directory ran to its end.
LoadedAfterSave == life.load = "True" /\ life.fresh /\ life.saved # None

\* C17: save_index, then load_index into a new engine over the same directory:
\* code_snippets (content and order) and the three totals are those that were
\* saved, and the engine is ready to search.
C17_SaveLoadRoundTrip ==
    LoadedAfterSave =>
        /\ code_snippets = life.saved[1].code_snippets
        /\ total_files_indexed = life.saved[1].total_files_indexed
        /\ total_lines_indexed = life.saved[1].total_lines_indexed
        /\ total_repositories = life.saved[1].total_repositories
        /\ faiss_index = life.saved[1].faiss_index
        /\ index_ready(faiss_index)

\* C17 witness: the index of both directories was saved and is loaded by a new
\* engine.
C17_Witness ==
    /\ LoadedAfterSave
    /\ total_repositories = 2
    /\ Len(code_snippets) > 2
    /\ total_files_indexed # total_lines_indexed

Missing == {a \in Artifacts : disk[a] = None}

\* C18: load_index reports a failure whenever a file of the index is missing or
\* cannot be deserialized, and reports success only with the whole index
\* loaded; it returns False exactly when a file is missing and raises exactly
\* when both are there and one cannot be deserialized.
C18_LoadFailsExplicitly ==
    life.load # "none" =>
        /\ life.load = "False" <=> Missing # {}
        /\ life.load = "raised" <=> (Missing = {} /\ unreadable # {})
        /\ life.load = "True" <=> (Missing = {} /\ unreadable = {})
        /\ life.load = "True" =>
               /\ faiss_index = disk.index
               /\ code_snippets = disk.meta[1].code_snippets
               /\ code_snippets # <<>>

\* C18 witness: load_index has raised on a metadata.json without its end.
C18_Witness ==
    /\ life.load = "raised"
    /\ unreadable = {"meta"}

\* C18 witness: load_index has returned False where only code.index is there.
C18_WitnessMissing ==
    /\ life.load = "False"
    /\ Missing = {"meta"}

\* C18 witness: load_index has raised on a code.index without its end.
C18_WitnessIndex ==
    /\ life.load = "raised"
    /\ "index" \in unreadable

-----------------------------------------------------------------------------
(* Properties of the cache key, checked under SpecKey.                     *)

\* Query texts with and without ':' and digits, and values of top_k.
KeyTexts == KeyQueries \cup {<<>>, <<":">>, <<"1">>, <<"a", ":">>, <<":", "1">>,
                             <<"a", "1">>, <<"a", ":", "1", "1">>, <<"a", ":", "-", "1">>}
KeyInts == KeyTopKs \cup {-11, -1, 0, 11, 12, 111}

\* What search computes for (query, top_k) on the index as it is.
ComputedResults(query, top_k) ==
    LET found == index_search(faiss_index[1], encode(query), top_k)
    IN  prepare_results(code_snippets, found.indices, found.distances)

\* C20: the cache key is a function of (query, top_k) that gives different
\* texts "query:top_k" for different pairs, whatever ':' and digits the query
\* holds and whatever integer top_k is; so every search, cached or not, returns
\* the results of its own pair.
C20_KeyPerPair ==
    /\ Cardinality({cache_key(q, k) : q \in KeyTexts, k \in KeyInts})
           = Cardinality(KeyTexts) * Cardinality(KeyInts)
    /\ \A t \in Threads :
           pc[t] \in InSearch =>
               frame[t].cache_key = cache_key(frame[t].query, frame[t].top_k)
    /\ \A n \in DOMAIN calls :
           calls[n].results = ComputedResults(calls[n].query, calls[n].top_k)

\* C20 witness: a query that holds ':' and a digit is answered from the cache
\* after the same query was cached with the other top_k.
C20_Witness ==
    \E l, m, n \in DOMAIN calls :
        /\ l < m /\ m < n
        /\ calls[l].query = <<"a", ":", "1">>
        /\ calls[m].query = calls[l].query
        /\ calls[n].query = calls[l].query
        /\ calls[m].top_k # calls[l].top_k
        /\ ~calls[m].from_cache
        /\ calls[n].top_k = calls[l].top_k
        /\ calls[n].from_cache

-----------------------------------------------------------------------------
(* C21: the hit and miss counters of the cache.                            *)

\* The step is a LRUCache.get / a LRUCache.put that completed.
GetStep == gets' = gets + 1
PutStep == tick' = tick + 1 /\ gets' = gets

\* C21: hits + misses is the number of get calls completed; a get adds one to
\* hits and leaves misses when the key is stored, adds one to misses and
\* leaves hits when it is absent; a put leaves both counters; and no step
\* makes a counter smaller.
C21_GetCountsOnce ==
    /\ [](hits + misses = gets)
    /\ [][/\ GetStep =>
               LET key == cache_op'[1].key
               IN  IF key \in Keys(cache)
                   THEN hits' = hits + 1 /\ misses' = misses
                   ELSE hits' = hits /\ misses' = misses + 1
          /\ PutStep => hits' = hits /\ misses' = misses
          /\ hits' >= hits /\ misses' >= misses]_vars

\* Gets that hit, gets that missed and puts have all happened.
C21_Witness ==
    /\ hits > 0 /\ misses > 0 /\ gets < tick
    /\ cache_op # None /\ cache_op[1].op = "put"

-----------------------------------------------------------------------------
(* C22: what a cache hit records.                                          *)

\* Thread t's cache.get has hit and its search has not returned yet.
ServingHit(t) ==
    /\ pc[t] \in {"record", "recording", "bucketing", "return"}
    /\ frame[t].from_cache

\* Thread t takes the step in which its cache.get hits.
HitStep(t) == pc[t] = "get" /\ frame[t].cache_key \in Keys(cache) /\ pc'[t] # "get"

\* C22: the get that hits leaves the value of the entry as it is and hands
\* search the latency stored in it; search keeps that latency until it
\* returns; record_query adds it to total_search_time and appends one record
\* with cached = TRUE and that latency as time_ms; the search passes through
\* record_query once before it returns, and no record is appended by a
\* thread that is not leaving record_query.
C22_HitRecordsStoredLatency ==
    [][\A t \in Threads :
          /\ HitStep(t) =>
                LET entry == Lookup(cache, frame[t].cache_key)
                IN  /\ ServingHit(t)'
                    /\ pc'[t] = "record"
                    /\ frame'[t].search_time = entry.search_time
                    /\ frame'[t].results = entry.results
                    /\ Lookup(cache', frame[t].cache_key) = entry
                    /\ recorded' = recorded
                    /\ total_search_time' = total_search_time
          /\ ServingHit(t) /\ pc'[t] # "idle" =>
                /\ ServingHit(t)'
                /\ frame'[t].search_time = frame[t].search_time
          /\ ServingHit(t) /\ pc[t] = "recording" /\ pc'[t] # "recording" =>
                /\ pc'[t] = "bucketing"
                /\ total_search_time' = total_search_time + frame[t].search_time
          /\ ServingHit(t) /\ pc[t] = "bucketing" /\ pc'[t] # "bucketing" =>
                /\ pc'[t] = "return"
                /\ recorded' = Append(recorded, [query |-> frame[t].query,
                                                 time_ms |-> frame[t].search_time,
                                                 cached |-> TRUE,
                                                 timestamp |-> now])
                /\ query_history' = trim_history(Append(query_history, Last(recorded')))
          /\ ServingHit(t) /\ pc'[t] # pc[t] =>
                <<pc[t], pc'[t]>> \in {<<"record", "recording">>,
                                       <<"recording", "bucketing">>,
                                       <<"bucketing", "return">>,
                                       <<"return", "idle">>}
          /\ Len(recorded') > Len(recorded) /\ pc'[t] = pc[t] =>
                \E u \in Threads \ {t} : pc[u] = "bucketing" /\ pc'[u] = "return"]_vars

\* A search that hit an entry holding the larger latency has been recorded:
\* the record is a cached one and carries that latency.
C22_Witness ==
    /\ recorded # <<>>
    /\ Last(recorded).cached
    /\ Last(recorded).time_ms = 200
    /\ total_search_time = 400
    /\ \E t \in Threads : pc[t] = "return" /\ frame[t].from_cache

-----------------------------------------------------------------------------
(* C23: what load_index restores after a save_index that did not finish.   *)

\* The last call on the engine was a load_index that returned True.
LoadSucceeded == life.load = "True"

\* C23: a load_index that succeeds restores a vector index and a snippet
\* store of one build: the index is the one build_search_index makes of the
\* restored snippets.
C23_LoadRestoresOneBuild ==
    LoadSucceeded => faiss_index = built_index(code_snippets)

-----------------------------------------------------------------------------
(* C24: the rows of the vector index and the snippet store.                *)

\* C24: whenever the engine has a vector index, the index has one row per
\* snippet of code_snippets and row i is the embedding of the content of
\* snippet i.
C24_RowsMatchSnippets ==
    faiss_index # None =>
        /\ Len(faiss_index[1].rows) = Len(code_snippets)
        /\ \A i \in DOMAIN code_snippets :
               faiss_index[1].rows[i] = encode(code_snippets[i].content)

-----------------------------------------------------------------------------
(* C25: the scope of the two locks.                                        *)

\* Thread t holds the lock.
Holds(lock, t) == lock = Some(t)

\* Thread t waits for a lock another thread holds.
Blocked(t) ==
    \/ pc[t] \in {"get", "put"} /\ cache_lock # None /\ ~Holds(cache_lock, t)
    \/ pc[t] = "record" /\ metrics_lock # None

\* C25: a thread holds the cache lock only inside LRUCache.get or LRUCache.put
\* and the metrics lock only inside record_query, so it holds neither while it
\* embeds the query and searches the index, and never both; a thread that
\* holds a lock is not waiting for one, some thread inside a search can
\* always take a step, and every search that was begun returns.
C25_LocksHeldInsideOneCall ==
    /\ [](\A t \in Threads :
             /\ Holds(cache_lock, t) => pc[t] \in {"get", "put"}
             /\ Holds(metrics_lock, t) => pc[t] \in {"recording", "bucketing"}
             /\ pc[t] = "compute" => ~Holds(cache_lock, t) /\ ~Holds(metrics_lock, t)
             /\ ~(Holds(cache_lock, t) /\ Holds(metrics_lock, t))
             /\ Holds(cache_lock, t) \/ Holds(metrics_lock, t) => ~Blocked(t))
    /\ []((\E t \in Threads : pc[t] # "idle") =>
             \E t \in Threads : pc[t] # "idle" /\ ~Blocked(t) /\ ENABLED SearchStep(t))
    /\ \A t \in Threads : (pc[t] # "idle") ~> (pc[t] = "idle")

\* Both locks are held, by different threads, while a search has returned
\* already.
C25_Witness ==
    /\ Holds(cache_lock, 1)
    /\ Holds(metrics_lock, 2)
    /\ pc[1] = "put"
    /\ calls # <<>>

\* A thread waits at record_query for the lock the other thread holds.
C25_WitnessWaiting ==
    \E t \in Threads : pc[t] = "record" /\ Blocked(t) /\ frame[t].from_cache

-----------------------------------------------------------------------------
(* C26: the engine is not changed once searches are served.                *)

\* The snippet store, the vector index and the index counters.
IndexState ==
    <<code_snippets, faiss_index, total_files_indexed, total_lines_indexed,
      total_repositories>>

\* A request (a search or a statistics call) is in flight.
InFlight == \E t \in Threads : pc[t] # "idle"

\* The process has been asked to search.
SearchServed == calls # <<>> \/ hits + misses > 0 \/ InFlight

\* main() is before its menu.
SettingUp == main_pc.at \in {"load", "choice", "index_1", "index_2", "build"}

\* C26: a step of the running program that changes code_snippets, faiss_index
\* or an index counter is a step of load_index, index_repository or
\* build_search_index made by main() before its menu, with no search served
\* yet and no request in flight; requests are in flight only at the menu, in
\* the search mode and while the server runs.
C26_IndexFixedWhileServing ==
    /\ [][IndexState' # IndexState /\ main_pc.at # "done" =>
              SettingUp /\ ~SearchServed /\ ~InFlight']_vars
    /\ [](InFlight => main_pc.at \in {"menu", "search", "api"})
    /\ [](SettingUp => ~SearchServed)

\* Two requests are in flight on the server, over an index built from the
\* clones, after a search has returned.
C26_Witness ==
    /\ main_pc.at = "api"
    /\ \A t \in Threads : pc[t] \in {"compute", "cache_dict", "metrics_stats"}
    /\ total_repositories = 2
    /\ faiss_index # None
    /\ calls # <<>>

\* The index was loaded from disk by a later run and a search has hit the cache.
C26_WitnessLoaded ==
    /\ life.saved # None
    /\ faiss_index = disk.index
    /\ total_repositories = 1
    /\ main_pc.at = "search"
    /\ hits > 0

-----------------------------------------------------------------------------
(* C27: the result cache and the rebuilds of the index.                    *)

\* The step starts the program again: a new, empty cache.
ProcessStart == tick > 0 /\ tick' = 0

\* C27: a key leaves the cache only in a put that finds the cache full, which
\* removes the least recently used entry; a step that changes the snippet
\* store, the index, a counter or the index directory leaves the entries and
\* the hit and miss counters as they are; and a get that finds the key gives
\* search the stored results with from_cache = TRUE, whatever the index has
\* become since they were computed.
C27_CacheOutlivesRebuild ==
    [][\/ ProcessStart
       \/ /\ Keys(cache) \ Keys(cache') # {} =>
                /\ PutStep
                /\ Len(cache) = capacity
                /\ Keys(cache) \ Keys(cache') = {cache[1].key}
          /\ IndexState' # IndexState \/ disk' # disk =>
                cache' = cache /\ hits' = hits /\ misses' = misses
          /\ \A t \in Threads :
                HitStep(t) =>
                    /\ frame'[t].from_cache
                    /\ frame'[t].results = Lookup(cache, frame[t].cache_key).results]_vars

\* The engine was rebuilt over more snippets and the search that followed
\* returned, from the cache, results the new index would not give.
C27_Witness ==
    /\ calls # <<>>
    /\ Last(calls).from_cache
    /\ faiss_index # None
    /\ total_repositories = 2
    /\ Last(calls).results # ComputedResults(Last(calls).query, Last(calls).top_k)

-----------------------------------------------------------------------------
(* C28: the files index_repository selects.                                *)

\* The directory index_repository was called with, and its file.
TheRoot == CHOOSE repo \in tree : TRUE
TheFile == TheRoot.files[1]

\* The file is one to index, judged by its path below the directory: its
\* extension is in the allow-list, no directory between repo_path and the
\* file is an ignored one, and it can be read.
ToIndex(f) ==
    /\ f.suffix \in supported_extensions
    /\ Range(SubSeq(f.rel, 1, Len(f.rel) - 1)) \cap skip_directories = {}
    /\ f.readable

\* C28: after index_repository(root) the file under root has been indexed
\* (counted, and its snippet stored) exactly if its path below root makes it
\* a file to index, wherever root lies.
C28_SelectedByRelativePath ==
    total_repositories = 1 =>
        IF ToIndex(TheFile)
        THEN /\ total_files_indexed = 1
             /\ Len(code_snippets) = 1
             /\ code_snippets[1].file = <<Last(TheRoot.path)>> \o TheFile.rel
        ELSE /\ total_files_indexed = 0
             /\ code_snippets = <<>>

-----------------------------------------------------------------------------
(* C29: what a load_index that fails leaves.                               *)

\* The step is a load_index call that returns False or raises.
FailedLoadStep == life'.load \in {"False", "raised"}

\* C29: a load_index that returns False or raises leaves faiss_index,
\* code_snippets and the three counters as they were before the call.
C29_FailedLoadChangesNothing == [][FailedLoadStep => IndexState' = IndexState]_vars

-----------------------------------------------------------------------------
(* C30: what a search without an index leaves.                             *)

\* The step is a search call that returns because faiss_index is None.
NotReadyReturn == Len(calls') = Len(calls) + 1 /\ ~Last(calls').ready

\* The step is taken by an engine that has no index and leaves it without one.
NoIndexStep == faiss_index = None /\ faiss_index' = None

\* C30: a search call made while faiss_index is None, and every step of it,
\* leaves the cache entries, the hit and miss counters, the metrics counters
\* and the query history as they were.
C30_NotReadyChangesNothing ==
    [][NotReadyReturn \/ NoIndexStep =>
          /\ faiss_index = None
          /\ cache' = cache /\ hits' = hits /\ misses' = misses
          /\ Metrics' = Metrics
          /\ recorded' = recorded]_vars

\* A search has returned from an engine that has snippets and no index yet,
\* and nothing was counted.
C30_Witness ==
    /\ calls # <<>>
    /\ ~Last(calls).ready
    /\ code_snippets # <<>>
    /\ faiss_index = None
    /\ hits + misses = 0
    /\ total_queries = 0

-----------------------------------------------------------------------------
(* C31: what index_repository changes.                                     *)

\* main() is about to call index_repository, and the directory it passes.
AtIndexCall == main_pc.at \in {"index_1", "index_2"}
CalledRepo == CHOOSE repo \in tree : repo.path = Head(main_pc.todo)

\* The step is that index_repository call.
IndexCallStep == AtIndexCall /\ main_pc' # main_pc

\* s is the beginning of t.
IsPrefix(s, t) == Len(s) <= Len(t) /\ SubSeq(t, 1, Len(s)) = s

\* C31: index_repository of a path that does not exist leaves code_snippets
\* and the three counters as they were; of a path that exists it keeps the
\* snippets there are, in their order, before the ones it appends, adds
\* exactly one to total_repositories and makes no counter smaller.
C31_IndexRepositoryAppendsOnly ==
    [][IndexCallStep =>
          IF ~CalledRepo.exists
          THEN /\ code_snippets' = code_snippets
               /\ total_repositories' = total_repositories
               /\ total_files_indexed' = total_files_indexed
               /\ total_lines_indexed' = total_lines_indexed
          ELSE /\ IsPrefix(code_snippets, code_snippets')
               /\ total_repositories' = total_repositories + 1
               /\ total_files_indexed' >= total_files_indexed
               /\ total_lines_indexed' >= total_lines_indexed]_vars

\* index_repository has been called on a directory that exists and then on a
\* path that does not: the snippets and counters are those of the first call.
C31_Witness ==
    /\ main_pc.at = "index_2"
    /\ main_pc.todo = <<RepoB.path>>
    /\ total_repositories = 1
    /\ code_snippets = walk(RepoA, RepoA.files).snippets
    /\ total_files_indexed = 1

\* A second directory has been indexed after the first: its snippets follow.
C31_WitnessAppended ==
    /\ main_pc.at = "build"
    /\ total_repositories = 2
    /\ Len(code_snippets) > Len(walk(RepoA, RepoA.files).snippets)

====
